---- MODULE Spec2Model ----
(***************************************************************************)
(* The user-space ADC client of libtock (userland/libtock/adc.c) as a      *)
(* state machine: the three static objects of the file (result, cont_cb,   *)
(* frequency), the kernel's single subscription slot of the ADC driver,    *)
(* the requests the driver still owes a callback for, and the position of  *)
(* the one application thread (idle, or suspended in yield_for).           *)
(***************************************************************************)
EXTENDS Integers, Sequences, FiniteSets, TLC

VARIABLES
  result,     \* static struct adc_data result       (adc.c:17)
  cont_cb,    \* static void (*cont_cb)(int)         (adc.c:18)
  frequency,  \* static struct adc_freq frequency    (adc.c:32)
  slot,       \* kernel: subscription 0 of driver 7: routine and userdata
  drv,        \* driver: requests it still owes callbacks for
  lastcmd,    \* driver: the last command it received, [num, arg]
  pc,         \* where the application thread is
  call,       \* history: the client operation in progress, or the last one
  ret,        \* history: what the last finished operation returned
  src,        \* history: which request produced the value held by each slot
  ev,         \* history: the callback of the last step and the handler calls it made
  mark,       \* history: the last adc_read_cont_sample that succeeded, and since
              \*   then the values delivered and the handler invocations
  stopped,    \* history: handlers whose stream a later operation took over
  nops,       \* number of client operations called so far
  ndel,       \* number of callbacks delivered so far
  inh,        \* the handler invocation in progress (called by adc_cb, not yet
              \*   returned) and where the thread was when it began
  pack        \* adc_cont_sample alone: its arguments and the argument it builds

vars == <<result, cont_cb, frequency, slot, drv, lastcmd, pc, call, ret, src,
          ev, mark, stopped, nops, ndel, inh, pack>>

----------------------------------------------------------------------------
(* Bounds of the model *)

MaxOps == 3      \* client operations per behaviour
MaxDeliv == 3    \* callbacks delivered per behaviour
MaxLate == 1     \* samples still in flight when a cancel command is accepted

(* Program constants *)

DRIVER_NUM_ADC == 7
ByteBase == 256       \* uint8_t channel, and the 8-bit shift of adc_cont_sample
WordBytes == 4        \* uint32_t

NULL == "NULL"
Handlers == {"h1", "h2"}          \* handlers that store the sample and return
Suspending == {"hs"}              \* handlers that call adc_read_single_sample
Chans == {0, 1}
Errs == {-1, -2}                 \* negative statuses of a rejected syscall
Statuses == {0} \cup Errs
Values == {-1, 2}                \* values a callback carries (an int)

----------------------------------------------------------------------------
(* uint32_t as four bytes, least significant first: TLC's integers are     *)
(* narrower than 2^32, and the shift in adc_cont_sample needs the width.   *)

RECURSIVE BitOr(_, _, _)
BitOr(a, b, n) ==
  IF n = 0 THEN 0
  ELSE (IF a % 2 = 1 \/ b % 2 = 1 THEN 1 ELSE 0)
       + 2 * BitOr(a \div 2, b \div 2, n - 1)

U32 == [1..WordBytes -> 0..(ByteBase - 1)]

\* An int that is >= 0, converted to uint32_t.
NatToU32(n) ==
  [i \in 1..WordBytes |->
     CASE i = 1 -> n % ByteBase
       [] i = 2 -> (n \div ByteBase) % ByteBase
       [] i = 3 -> (n \div (ByteBase * ByteBase)) % ByteBase
       [] OTHER -> (n \div (ByteBase * ByteBase * ByteBase)) % ByteBase]

\* x << 8 on a uint32_t: the top byte is shifted out.
Shl8(x) == [i \in 1..WordBytes |-> IF i = 1 THEN 0 ELSE x[i - 1]]

\* x | y on uint32_t.
Or32(x, y) == [i \in 1..WordBytes |-> BitOr(x[i], y[i], 8)]

\* adc_cont_sample without the shift: the channel is or-ed into the low
\* byte of the frequency.
chan_freq_noshift(channel, freq) == Or32(freq, NatToU32(channel))

\* adc_cont_sample: chan_freq = (frequency << 8) | (channel)
chan_freq(channel, freq) == Or32(Shl8(freq), NatToU32(channel))

Hz1000 == <<232, 3, 0, 0>>       \* 1000
Freqs == {Hz1000}                \* frequencies the operations are called with

----------------------------------------------------------------------------
(* The statics of adc.c, gathered so that the routines below can be        *)
(* written as functions from statics to statics.                           *)

St == [result |-> result, cont_cb |-> cont_cb, frequency |-> frequency]

InitSt == [result    |-> [reading |-> 0, fired |-> FALSE],
           cont_cb   |-> NULL,
           frequency |-> [value |-> 0, computed |-> FALSE]]

\* A callback routine that stores the value but leaves the flag alone.
StoreVia_noflag(st, ud, v) ==
  CASE ud = "result"    -> [st EXCEPT !.result.reading = v]
    [] ud = "frequency" -> [st EXCEPT !.frequency.value = v]
    [] OTHER            -> st

\* A store of (int, bool) through the userdata pointer ud: struct adc_data
\* and struct adc_freq have the same layout, the pointer decides the object.
StoreVia(st, ud, v) ==
  CASE ud = "result"    -> [st EXCEPT !.result = [reading |-> v, fired |-> TRUE]]
    [] ud = "frequency" -> [st EXCEPT !.frequency = [value |-> v, computed |-> TRUE]]
    [] OTHER            -> st

\* adc_cb without its last two lines: the handler is never called.
adc_cb_drop(st, ud, reading) ==
  [st    |-> StoreVia(st, ud, reading),
   calls |-> <<>>]

\* adc_cb: data->reading = reading; data->fired = true;
\*         if (cont_cb) cont_cb(reading);
\* st: the statics after the stores; calls: the handler invocations made.
adc_cb(st, ud, reading) ==
  [st    |-> StoreVia(st, ud, reading),
   calls |-> IF st.cont_cb # NULL
             THEN <<[h |-> st.cont_cb, v |-> reading]>>
             ELSE <<>>]

\* adc_freq_cb storing into the sample slot whatever it was registered with.
adc_freq_cb_result(st, ud, value) ==
  [st    |-> StoreVia(st, "result", value),
   calls |-> <<>>]

\* adc_freq_cb: frequency->value = value; frequency->computed = true;
adc_freq_cb(st, ud, value) ==
  [st    |-> StoreVia(st, ud, value),
   calls |-> <<>>]

\* adc_read_single_sample that resets the whole result object, not only
\* its flag.
adc_read_single_sample_entry_zero(st) ==
  [st EXCEPT !.cont_cb = NULL, !.result = [reading |-> 0, fired |-> FALSE]]

\* adc_read_single_sample without line 72: the handler stays installed.
adc_read_single_sample_entry_keep(st) ==
  [st EXCEPT !.result.fired = FALSE]

\* adc_read_single_sample without line 73: the flag keeps what an earlier
\* callback left in it.
adc_read_single_sample_entry_noreset(st) ==
  [st EXCEPT !.cont_cb = NULL]

\* adc_read_single_sample, lines 72-73: cont_cb = NULL; result.fired = false;
adc_read_single_sample_entry(st) ==
  [st EXCEPT !.cont_cb = NULL, !.result.fired = FALSE]

\* adc_read_cont_sample that keeps the handler already installed.
adc_read_cont_sample_entry_first(st, cb) ==
  IF st.cont_cb # NULL THEN st ELSE [st EXCEPT !.cont_cb = cb]

\* adc_read_cont_sample, line 89: cont_cb = cb;
adc_read_cont_sample_entry(st, cb) ==
  [st EXCEPT !.cont_cb = cb]

\* adc_cancel_sampling: only the command, no store to the statics.
adc_cancel_sampling_entry(st) == st

\* adc_nearest_sampling_freq that also clears the handler, as
\* adc_read_single_sample does.
adc_nearest_sampling_freq_entry_clear(st) ==
  [st EXCEPT !.cont_cb = NULL, !.frequency.computed = FALSE]

\* adc_nearest_sampling_freq, line 101: frequency.computed = false;
\* (the parameter of the function is named frequency as well; the member
\* accesses at lines 101, 111 and 113 are read as the static object's.)
adc_nearest_sampling_freq_entry(st) ==
  [st EXCEPT !.frequency.computed = FALSE]

\* The control flow of the operations, for the statuses s1 of subscribe and
\* s2 of command. nsub, ncmd: syscalls issued; next: "err" (return val with
\* a negative status), "ok" (return val), "wait" (go on to yield_for).

\* adc_read_single_sample that does not test the status of subscribe.
adc_read_single_sample_flow_nocheck(s1, s2) ==
  IF s2 < 0 THEN [next |-> "err", val |-> s2, nsub |-> 1, ncmd |-> 1]
  ELSE [next |-> "wait", val |-> 0, nsub |-> 1, ncmd |-> 1]

\* adc_read_single_sample, lines 74-81:
\*   err = adc_set_callback(..); if (err < 0) return err;
\*   err = adc_single_sample(channel); if (err < 0) return err;
\*   yield_for(&result.fired);
adc_read_single_sample_flow(s1, s2) ==
  IF s1 < 0 THEN [next |-> "err", val |-> s1, nsub |-> 1, ncmd |-> 0]
  ELSE IF s2 < 0 THEN [next |-> "err", val |-> s2, nsub |-> 1, ncmd |-> 1]
  ELSE [next |-> "wait", val |-> 0, nsub |-> 1, ncmd |-> 1]

\* adc_read_cont_sample that issues the command a second time when the
\* driver rejects it.
adc_read_cont_sample_flow_retry(s1, s2) ==
  IF s1 < 0 THEN [next |-> "err", val |-> s1, nsub |-> 1, ncmd |-> 0]
  ELSE [next |-> IF s2 < 0 THEN "err" ELSE "ok",
        val |-> s2, nsub |-> 1, ncmd |-> IF s2 < 0 THEN 2 ELSE 1]

\* adc_read_cont_sample, lines 90-95:
\*   err = adc_set_callback(..); if (err < 0) return err;
\*   err = adc_cont_sample(channel, frequency); return err;
adc_read_cont_sample_flow(s1, s2) ==
  IF s1 < 0 THEN [next |-> "err", val |-> s1, nsub |-> 1, ncmd |-> 0]
  ELSE [next |-> IF s2 < 0 THEN "err" ELSE "ok",
        val |-> s2, nsub |-> 1, ncmd |-> 1]

\* adc_nearest_sampling_freq, lines 104-111:
\*   err = adc_set_callback(..); if (err < 0) return err;
\*   err = adc_compute_frequency(frequency); if (err < 0) return err;
\*   yield_for(&frequency.computed);
adc_nearest_sampling_freq_flow(s1, s2) ==
  IF s1 < 0 THEN [next |-> "err", val |-> s1, nsub |-> 1, ncmd |-> 0]
  ELSE IF s2 < 0 THEN [next |-> "err", val |-> s2, nsub |-> 1, ncmd |-> 1]
  ELSE [next |-> "wait", val |-> 0, nsub |-> 1, ncmd |-> 1]

\* A return statement that reports the magnitude of a negative int.
IntToU32_abs(x) == NatToU32(IF x < 0 THEN 0 - x ELSE x)

\* The int -> uint32_t conversion of a return statement of
\* adc_nearest_sampling_freq: x mod 2^32.
IntToU32(x) ==
  IF x >= 0 THEN NatToU32(x)
  ELSE LET low == NatToU32((x + 2147483647) + 1)   \* x + 2^31
       IN  [low EXCEPT ![WordBytes] = low[WordBytes] + 128]

----------------------------------------------------------------------------
(* The kernel and the driver, as the syscall boundary describes them.      *)

NoSlot == [cb |-> "none", ud |-> "none"]

\* subscribe(DRIVER_NUM_ADC, 0, cb, ud) with status s: an accepted
\* registration replaces the slot's pair, a rejected one leaves it.
subscribe(sl, cb, ud, s) ==
  IF s < 0 THEN sl ELSE [cb |-> cb, ud |-> ud]

\* adc_set_callback(callback, callback_args)
adc_set_callback(sl, cb, ud, s) == subscribe(sl, cb, ud, s)

\* adc_read_single_sample, line 74: adc_set_callback(adc_cb, &result)
adc_read_single_sample_subscribe(sl, s) ==
  adc_set_callback(sl, "adc_cb", "result", s)

\* adc_read_cont_sample, line 90: adc_set_callback(adc_cb, &result)
adc_read_cont_sample_subscribe(sl, s) ==
  adc_set_callback(sl, "adc_cb", "result", s)

\* adc_nearest_sampling_freq registering the sample routine, as the two
\* other operations do.
adc_nearest_sampling_freq_subscribe_sample(sl, s) ==
  adc_set_callback(sl, "adc_cb", "result", s)

\* adc_nearest_sampling_freq handing adc_freq_cb the sample slot.
adc_nearest_sampling_freq_subscribe_result(sl, s) ==
  adc_set_callback(sl, "adc_freq_cb", "result", s)

\* adc_nearest_sampling_freq, line 104:
\*   adc_set_callback(adc_freq_cb, &frequency)
adc_nearest_sampling_freq_subscribe(sl, s) ==
  adc_set_callback(sl, "adc_freq_cb", "frequency", s)

\* The statuses the driver may answer a command with: it keeps at most one
\* single-sample and one compute-frequency request outstanding.
CmdStatusesOf(d, num) ==
  CASE num = 2 /\ d.single # 0 -> Errs
    [] num = 5 /\ d.freq # 0   -> Errs
    [] OTHER                   -> Statuses

CmdStatuses(num) == CmdStatusesOf(drv, num)

\* Where a slot's content comes from: the request that produced the callback,
\* and whether the callback came after the current operation began.
NoSrc == [kind |-> "init", id |-> 0, v |-> 0, fresh |-> FALSE]

\* A new operation begins: what the slots hold now was stored before it.
Stale(s) == [x \in DOMAIN s |-> [s[x] EXCEPT !.fresh = FALSE]]

\* The application thread is in yield(): the only place where the kernel
\* delivers a callback. yield_for(&flag) is while (!flag) yield();
Yielding ==
  \/ pc = "idle"
  \/ pc = "rs_wait" /\ ~result.fired
  \/ pc = "nf_wait" /\ ~frequency.computed

\* The kernel calls the registered routine with the registered userdata.
Dispatch(v) ==
  CASE slot.cb = "adc_cb"      -> adc_cb(St, slot.ud, v)
    [] slot.cb = "adc_freq_cb" -> adc_freq_cb(St, slot.ud, v)
    [] OTHER                   -> [st |-> St, calls |-> <<>>]

\* What an accepted command does to the driver (a rejected one: nothing).
\* id: the client operation issuing it; late: the samples of a cancelled
\* stream that are already on their way.
command(d, num, s, id, late) ==
  IF s < 0 THEN d
  ELSE CASE num = 2 -> [d EXCEPT !.single = id]
         [] num = 3 -> [d EXCEPT !.stream = id]
         [] num = 4 -> [d EXCEPT !.stream = 0,
                                 !.late = IF d.stream # 0 THEN late ELSE d.late]
         [] num = 5 -> [d EXCEPT !.freq = id]
         [] OTHER   -> d

----------------------------------------------------------------------------
(* Initial state: the statics as the loader leaves them, the driver after  *)
(* adc_initialize(), no subscription yet.                                  *)

Zero32 == NatToU32(0)

NoCall == [op |-> "none", id |-> 0, prev |-> "none", prevPath |-> "none",
           pre |-> InitSt, cb |-> NULL,
           sub |-> 0, cmd |-> 0, nsub |-> 0, ncmd |-> 0, yielded |-> FALSE]

NoRet == [op |-> "none", path |-> "none", val |-> 0, uval |-> Zero32,
          src |-> NoSrc]

\* during: the handler that was in progress when the callback was dispatched.
NoEv == [delivered |-> FALSE, v |-> 0, calls |-> <<>>, during |-> NULL]

NoInh == [h |-> NULL, back |-> "idle"]

NoMark == [h |-> NULL, clean |-> FALSE, sent |-> <<>>, got |-> <<>>]

\* rs, nf: the handler adc_read_single_sample, adc_nearest_sampling_freq took
\* the callbacks from; rc: the handler of an adc_read_cont_sample that failed.
NoStopped == [rs |-> NULL, nf |-> NULL, rc |-> NULL]

NoPack == [c |-> 0, f |-> Zero32, arg |-> Zero32, done |-> FALSE]

InitRest ==
  /\ result = InitSt.result
  /\ cont_cb = InitSt.cont_cb
  /\ frequency = InitSt.frequency
  /\ slot = NoSlot
  /\ drv = [stream |-> 0, late |-> 0, single |-> 0, freq |-> 0]
  /\ lastcmd = [num |-> 1, arg |-> Zero32]
  /\ pc = "idle"
  /\ call = NoCall
  /\ ret = NoRet
  /\ src = [result |-> NoSrc, frequency |-> NoSrc]
  /\ ev = NoEv
  /\ mark = NoMark
  /\ stopped = NoStopped
  /\ nops = 0
  /\ ndel = 0
  /\ inh = NoInh

Init == InitRest /\ pack = NoPack

\* The history record of an operation that starts now.
NewCall(op, cb, fl, s1, s2) ==
  [op |-> op, id |-> nops + 1, prev |-> call.op, prevPath |-> ret.path,
   pre |-> St, cb |-> cb,
   sub |-> s1, cmd |-> IF fl.ncmd > 0 THEN s2 ELSE 0,
   nsub |-> fl.nsub, ncmd |-> fl.ncmd, yielded |-> (fl.next = "wait")]

SetSt(st) ==
  /\ result' = st.result
  /\ cont_cb' = st.cont_cb
  /\ frequency' = st.frequency

\* The statuses to try for the command that follows a subscribe of status s1.
After(s1, num) == IF s1 < 0 THEN {0} ELSE CmdStatuses(num)

----------------------------------------------------------------------------
(* The client operations *)

\* int adc_read_single_sample(uint8_t channel), up to yield_for.
ReadSingle(c, s1, s2) ==
  /\ pc = "idle" /\ nops < MaxOps
  /\ LET st1 == adc_read_single_sample_entry(St)
         fl  == adc_read_single_sample_flow(s1, s2)
     IN  /\ SetSt(st1)
         /\ slot' = IF fl.nsub > 0
                    THEN adc_read_single_sample_subscribe(slot, s1)
                    ELSE slot
         /\ drv' = IF fl.ncmd > 0
                   THEN command(drv, 2, s2, nops + 1, 0)
                   ELSE drv
         /\ lastcmd' = IF fl.ncmd > 0
                       THEN [num |-> 2, arg |-> NatToU32(c)]
                       ELSE lastcmd
         /\ pc' = IF fl.next = "wait" THEN "rs_wait" ELSE "idle"
         /\ call' = NewCall("read_single", NULL, fl, s1, s2)
         /\ ret' = [op |-> "read_single",
                    path |-> IF fl.next = "wait" THEN "pending" ELSE "err",
                    val |-> fl.val, uval |-> Zero32, src |-> NoSrc]
  /\ stopped' = IF cont_cb # NULL THEN [stopped EXCEPT !.rs = cont_cb] ELSE stopped
  /\ mark' = NoMark
  /\ ev' = NoEv
  /\ nops' = nops + 1
  /\ src' = Stale(src)
  /\ UNCHANGED <<pack, inh, ndel>>

\* adc_read_single_sample after yield_for: return result.reading;
\* When a handler made the call, the handler returns next, then adc_cb, and
\* the thread is back in the yield that dispatched the callback.
ReadSingleReturn ==
  /\ pc = "rs_wait" /\ result.fired
  /\ pc' = inh.back
  /\ inh' = NoInh
  /\ ret' = [op |-> "read_single", path |-> "ok", val |-> result.reading,
             uval |-> Zero32, src |-> src.result]
  /\ ev' = NoEv
  /\ UNCHANGED <<pack, result, cont_cb, frequency, slot, drv, lastcmd, call, src,
                 mark, stopped, nops, ndel>>

\* int adc_read_cont_sample(uint8_t channel, uint32_t frequency, cb)
ReadCont(c, f, cb, s1, s2) ==
  /\ pc = "idle" /\ nops < MaxOps
  /\ LET st1 == adc_read_cont_sample_entry(St, cb)
         fl  == adc_read_cont_sample_flow(s1, s2)
         arg == chan_freq(c, f)
     IN  /\ SetSt(st1)
         /\ slot' = IF fl.nsub > 0
                    THEN adc_read_cont_sample_subscribe(slot, s1)
                    ELSE slot
         /\ drv' = IF fl.ncmd > 0
                   THEN command(drv, 3, s2, nops + 1, 0)
                   ELSE drv
         /\ lastcmd' = IF fl.ncmd > 0 THEN [num |-> 3, arg |-> arg] ELSE lastcmd
         /\ call' = NewCall("read_cont", cb, fl, s1, s2)
         /\ ret' = [op |-> "read_cont", path |-> fl.next, val |-> fl.val,
                    uval |-> Zero32, src |-> NoSrc]
         /\ mark' = IF fl.next = "ok"
                    THEN [h |-> cb, clean |-> TRUE, sent |-> <<>>, got |-> <<>>]
                    ELSE NoMark
  /\ pc' = "idle"
  /\ stopped' = [NoStopped EXCEPT !.rc = IF s1 < 0 \/ s2 < 0 THEN cb ELSE NULL]
  /\ ev' = NoEv
  /\ nops' = nops + 1
  /\ src' = Stale(src)
  /\ UNCHANGED <<pack, inh, ndel>>

\* int adc_cancel_sampling(void): return command(DRIVER_NUM_ADC, 4, 0);
CancelSampling(s, late) ==
  /\ pc = "idle" /\ nops < MaxOps
  /\ SetSt(adc_cancel_sampling_entry(St))
  /\ drv' = command(drv, 4, s, nops + 1, late)
  /\ lastcmd' = [num |-> 4, arg |-> Zero32]
  /\ call' = NewCall("cancel", NULL, [next |-> "ret", nsub |-> 0, ncmd |-> 1], 0, s)
  /\ ret' = [op |-> "cancel", path |-> IF s < 0 THEN "err" ELSE "ok",
             val |-> s, uval |-> Zero32, src |-> NoSrc]
  /\ mark' = NoMark
  /\ ev' = NoEv
  /\ pc' = "idle"
  /\ nops' = nops + 1
  /\ src' = Stale(src)
  /\ UNCHANGED <<pack, inh, slot, stopped, ndel>>

\* uint32_t adc_nearest_sampling_freq(uint32_t frequency), up to yield_for.
NearestFreq(f, s1, s2) ==
  /\ pc = "idle" /\ nops < MaxOps
  /\ LET st1 == adc_nearest_sampling_freq_entry(St)
         fl  == adc_nearest_sampling_freq_flow(s1, s2)
     IN  /\ SetSt(st1)
         /\ slot' = IF fl.nsub > 0
                    THEN adc_nearest_sampling_freq_subscribe(slot, s1)
                    ELSE slot
         /\ drv' = IF fl.ncmd > 0
                   THEN command(drv, 5, s2, nops + 1, 0)
                   ELSE drv
         /\ lastcmd' = IF fl.ncmd > 0 THEN [num |-> 5, arg |-> f] ELSE lastcmd
         /\ pc' = IF fl.next = "wait" THEN "nf_wait" ELSE "idle"
         /\ call' = NewCall("nearest", NULL, fl, s1, s2)
         /\ ret' = [op |-> "nearest",
                    path |-> IF fl.next = "wait" THEN "pending" ELSE "err",
                    val |-> fl.val, uval |-> IntToU32(fl.val), src |-> NoSrc]
  /\ stopped' = IF cont_cb # NULL /\ s1 >= 0
                THEN [stopped EXCEPT !.nf = cont_cb]
                ELSE stopped
  /\ mark' = NoMark
  /\ ev' = NoEv
  /\ nops' = nops + 1
  /\ src' = Stale(src)
  /\ UNCHANGED <<pack, inh, ndel>>

\* adc_nearest_sampling_freq after yield_for: return frequency.value;
NearestFreqReturn ==
  /\ pc = "nf_wait" /\ frequency.computed
  /\ pc' = "idle"
  /\ ret' = [op |-> "nearest", path |-> "ok", val |-> frequency.value,
             uval |-> IntToU32(frequency.value), src |-> src.frequency]
  /\ ev' = NoEv
  /\ UNCHANGED <<pack, inh, result, cont_cb, frequency, slot, drv, lastcmd, call, src,
                 mark, stopped, nops, ndel>>

----------------------------------------------------------------------------
(* Callbacks: the kernel delivers one while the thread is in yield().      *)

\* adc_cb is registered and the handler it will call is one that calls
\* adc_read_single_sample: DeliverSampler below is the step of that callback.
SamplerInstalled == slot.cb = "adc_cb" /\ cont_cb \in Suspending

\* One callback carrying v, produced by request s, leaving the driver as d2.
Deliver(v, s, d2) ==
  /\ Yielding /\ ndel < MaxDeliv /\ slot.cb # "none"
  /\ ~SamplerInstalled
  /\ LET d == Dispatch(v)
     IN  /\ SetSt(d.st)
         /\ ev' = [delivered |-> TRUE, v |-> v, calls |-> d.calls,
                    during |-> inh.h]
         /\ mark' = IF mark.clean
                    THEN [mark EXCEPT !.sent = Append(@, v), !.got = @ \o d.calls]
                    ELSE mark
  /\ src' = IF slot.ud \in DOMAIN src
            THEN [src EXCEPT ![slot.ud] = [kind |-> s.kind, id |-> s.id, v |-> v,
                                            fresh |-> TRUE]]
            ELSE src
  /\ drv' = d2
  /\ ndel' = ndel + 1
  /\ UNCHANGED <<pack, inh, slot, lastcmd, pc, call, ret, stopped, nops>>

\* A sample of the running continuous stream.
DeliverStream(v) ==
  /\ drv.stream # 0
  /\ Deliver(v, [kind |-> "stream", id |-> drv.stream], drv)

\* A sample of a cancelled stream that was already on its way.
DeliverLate(v) ==
  /\ drv.late > 0
  /\ Deliver(v, [kind |-> "stream", id |-> 0], [drv EXCEPT !.late = @ - 1])

\* The answer to a single-sample command.
DeliverSingle(v) ==
  /\ drv.single # 0
  /\ Deliver(v, [kind |-> "single", id |-> drv.single], [drv EXCEPT !.single = 0])

\* The answer to a compute-frequency command.
DeliverFreq(v) ==
  /\ drv.freq # 0
  /\ Deliver(v, [kind |-> "freq", id |-> drv.freq], [drv EXCEPT !.freq = 0])

\* The callbacks the driver can produce now: the request each answers and
\* the driver after it.
Owed ==
  {[kind |-> "stream", id |-> drv.stream, d2 |-> drv] :
      x \in IF drv.stream # 0 THEN {0} ELSE {}}
  \cup {[kind |-> "stream", id |-> 0, d2 |-> [drv EXCEPT !.late = @ - 1]] :
      x \in IF drv.late > 0 THEN {0} ELSE {}}
  \cup {[kind |-> "single", id |-> drv.single, d2 |-> [drv EXCEPT !.single = 0]] :
      x \in IF drv.single # 0 THEN {0} ELSE {}}
  \cup {[kind |-> "freq", id |-> drv.freq, d2 |-> [drv EXCEPT !.freq = 0]] :
      x \in IF drv.freq # 0 THEN {0} ELSE {}}

\* A callback to adc_cb while cont_cb is a handler that calls
\* adc_read_single_sample(c): adc_cb stores v and calls the handler (line
\* 29), the handler runs lines 72-78 with statuses s1, s2, and then either
\* returns at once (a syscall was rejected) or is suspended in yield_for
\* (line 81) with adc_cb and the handler itself still on the stack.
DeliverSampler(v, o, c, s1, s2) ==
  /\ Yielding /\ ndel < MaxDeliv /\ nops < MaxOps
  /\ SamplerInstalled
  /\ LET d   == Dispatch(v)
         st1 == adc_read_single_sample_entry(d.st)
         fl  == adc_read_single_sample_flow(s1, s2)
     IN  /\ SetSt(st1)
         /\ slot' = IF fl.nsub > 0
                    THEN adc_read_single_sample_subscribe(slot, s1)
                    ELSE slot
         /\ drv' = IF fl.ncmd > 0
                   THEN command(o.d2, 2, s2, nops + 1, 0)
                   ELSE o.d2
         /\ lastcmd' = IF fl.ncmd > 0
                       THEN [num |-> 2, arg |-> NatToU32(c)]
                       ELSE lastcmd
         /\ pc' = IF fl.next = "wait" THEN "rs_wait" ELSE pc
         /\ inh' = IF fl.next = "wait" THEN [h |-> cont_cb, back |-> pc] ELSE inh
         /\ call' = [NewCall("read_single", NULL, fl, s1, s2) EXCEPT !.pre = d.st]
         /\ ret' = [op |-> "read_single",
                    path |-> IF fl.next = "wait" THEN "pending" ELSE "err",
                    val |-> fl.val, uval |-> Zero32, src |-> NoSrc]
         /\ ev' = [delivered |-> TRUE, v |-> v, calls |-> d.calls,
                    during |-> inh.h]
  /\ src' = Stale(IF slot.ud \in DOMAIN src
                  THEN [src EXCEPT ![slot.ud] = [kind |-> o.kind, id |-> o.id,
                                                 v |-> v, fresh |-> TRUE]]
                  ELSE src)
  /\ stopped' = [stopped EXCEPT !.rs = cont_cb]
  /\ mark' = NoMark
  /\ nops' = nops + 1
  /\ ndel' = ndel + 1
  /\ UNCHANGED pack

----------------------------------------------------------------------------

Next ==
  \/ \E c \in Chans, s1 \in Statuses :
       \E s2 \in After(s1, 2) : ReadSingle(c, s1, s2)
  \/ ReadSingleReturn
  \/ \E c \in Chans, f \in Freqs, cb \in Handlers, s1 \in Statuses :
       \E s2 \in After(s1, 3) : ReadCont(c, f, cb, s1, s2)
  \/ \E s \in CmdStatuses(4) :
       \E late \in (IF s >= 0 /\ drv.stream # 0 THEN 0..MaxLate ELSE {0}) :
         CancelSampling(s, late)
  \/ \E f \in Freqs, s1 \in Statuses :
       \E s2 \in After(s1, 5) : NearestFreq(f, s1, s2)
  \/ NearestFreqReturn
  \/ \E v \in Values : DeliverStream(v)
  \/ \E v \in Values : DeliverLate(v)
  \/ \E v \in Values : DeliverSingle(v)
  \/ \E v \in Values : DeliverFreq(v)

Spec == Init /\ [][Next]_vars

----------------------------------------------------------------------------
(* The same program under the scheduling the client relies on: the driver  *)
(* answers every single-sample and compute-frequency command it accepted,  *)
(* and yield_for returns once its flag is set. A call suspends only while  *)
(* the behaviour still has a callback to deliver.                          *)

\* The thread is inside yield_for and its flag is still FALSE.
Suspended == pc # "idle" /\ Yielding

\* A call may suspend while a callback can still be delivered to it.
Budget == Suspended' => ndel' < MaxDeliv

\* Whether a suspended call returns does not depend on the channel or on
\* which negative status a rejected syscall carries: one of each.
LiveChans == {0}
LiveStatuses == {0, -1}

NextLive ==
  \/ \E c \in LiveChans, s1 \in LiveStatuses :
       \E s2 \in After(s1, 2) \cap LiveStatuses :
         ReadSingle(c, s1, s2) /\ Budget
  \/ ReadSingleReturn
  \/ \E c \in LiveChans, f \in Freqs, cb \in Handlers, s1 \in LiveStatuses :
       \E s2 \in After(s1, 3) \cap LiveStatuses :
         ReadCont(c, f, cb, s1, s2)
  \/ \E s \in CmdStatuses(4) \cap LiveStatuses :
       \E late \in (IF s >= 0 /\ drv.stream # 0 THEN 0..MaxLate ELSE {0}) :
         CancelSampling(s, late)
  \/ \E f \in Freqs, s1 \in LiveStatuses :
       \E s2 \in After(s1, 5) \cap LiveStatuses :
         NearestFreq(f, s1, s2) /\ Budget
  \/ NearestFreqReturn
  \/ \E v \in Values : DeliverStream(v)
  \/ \E v \in Values : DeliverLate(v)
  \/ \E v \in Values : DeliverSingle(v)
  \/ \E v \in Values : DeliverFreq(v)

\* The callback the driver owes for an accepted command.
Answer == \E v \in Values : DeliverSingle(v) \/ DeliverFreq(v)

SpecLive ==
  /\ Init /\ [][NextLive]_vars
  /\ WF_vars(Answer)
  /\ WF_vars(ReadSingleReturn)
  /\ WF_vars(NearestFreqReturn)

----------------------------------------------------------------------------
(* The same program with an application that may install, besides a plain  *)
(* handler, one that calls adc_read_single_sample on every sample.         *)

ReentHandlers == {"h1"} \cup Suspending

NextReent ==
  \/ \E c \in LiveChans, s1 \in LiveStatuses :
       \E s2 \in After(s1, 2) \cap LiveStatuses :
         ReadSingle(c, s1, s2)
  \/ ReadSingleReturn
  \/ \E c \in LiveChans, f \in Freqs, cb \in ReentHandlers, s1 \in LiveStatuses :
       \E s2 \in After(s1, 3) \cap LiveStatuses :
         ReadCont(c, f, cb, s1, s2)
  \/ \E s \in CmdStatuses(4) \cap LiveStatuses :
       \E late \in (IF s >= 0 /\ drv.stream # 0 THEN 0..MaxLate ELSE {0}) :
         CancelSampling(s, late)
  \/ \E f \in Freqs, s1 \in LiveStatuses :
       \E s2 \in After(s1, 5) \cap LiveStatuses :
         NearestFreq(f, s1, s2)
  \/ NearestFreqReturn
  \/ \E v \in Values : DeliverStream(v)
  \/ \E v \in Values : DeliverLate(v)
  \/ \E v \in Values : DeliverSingle(v)
  \/ \E v \in Values : DeliverFreq(v)
  \/ \E v \in Values, o \in Owed, c \in LiveChans, s1 \in LiveStatuses :
       \E s2 \in (IF s1 < 0 THEN {0} ELSE CmdStatusesOf(o.d2, 2)) \cap LiveStatuses :
         DeliverSampler(v, o, c, s1, s2)

SpecReent == Init /\ [][NextReent]_vars

----------------------------------------------------------------------------
(* adc_cont_sample on its own, over arguments whose bytes take the extreme *)
(* values: the frequency may or may not fit the 24 bits the shift leaves.  *)

PackBytes == {0, 1, 255}
PackChans == PackBytes                      \* uint8_t channel
PackFreqs == [1..WordBytes -> PackBytes]    \* uint32_t frequency

InitPack ==
  /\ InitRest
  /\ pack \in [c : PackChans, f : PackFreqs, arg : {Zero32}, done : {FALSE}]

\* int adc_cont_sample(uint8_t channel, uint32_t frequency)
AdcContSample ==
  /\ ~pack.done
  /\ LET arg == chan_freq(pack.c, pack.f)
     IN  /\ pack' = [pack EXCEPT !.arg = arg, !.done = TRUE]
         /\ lastcmd' = [num |-> 3, arg |-> arg]
  /\ UNCHANGED <<result, cont_cb, frequency, slot, drv, pc, call, ret, src,
                 ev, mark, stopped, nops, ndel, inh>>

NextPack == AdcContSample

SpecPack == InitPack /\ [][NextPack]_vars

----------------------------------------------------------------------------
(* Properties *)

\* The last operation has returned and no callback was delivered since.
JustReturned == pc = "idle" /\ ~ev.delivered /\ ret.op = call.op

\* The handler h is among the handler invocations of the last callback.
Invoked(h) == \E i \in 1..Len(ev.calls) : ev.calls[i].h = h

\* C1: the value adc_read_single_sample returns on its success path is the
\* reading carried by the callback that answers this call's single-sample
\* command, never a sample of a continuous stream nor a compute-frequency
\* answer.
C1_ReadSingleReturnsOwnAnswer ==
  (ret.op = "read_single" /\ ret.path = "ok") =>
     /\ ret.src.kind = "single"
     /\ ret.src.id = call.id
     /\ ret.val = ret.src.v

\* C2: after a successful adc_read_cont_sample(c, f, h) followed by
\* adc_cancel_sampling(), whatever the cancel command returned, a callback
\* delivered after the cancel call finds cont_cb cleared and does not
\* invoke h.
C2_CancelClearsHandler ==
  (call.op = "cancel" /\ call.prev = "read_cont" /\ call.prevPath = "ok"
     /\ ev.delivered) =>
     /\ cont_cb = NULL
     /\ ~Invoked(call.pre.cont_cb)

\* C3: once adc_read_single_sample has been called while the handler h was
\* installed, no callback invokes h, whether that call succeeds or fails,
\* until adc_read_cont_sample is called again.
C3_ReadSingleStopsHandler ==
  stopped.rs # NULL => ~Invoked(stopped.rs)

\* A callback was delivered after adc_read_single_sample took over from a
\* handler, while the driver was still streaming.
C3_Witness ==
  /\ stopped.rs # NULL
  /\ ev.delivered
  /\ drv.stream # 0
  /\ src.result.kind = "stream"

\* C4: after a successful adc_read_cont_sample(c, f, h) and with no other
\* client operation since, every callback the driver delivered has invoked h
\* exactly once with the value it carried: the values h received are the
\* values delivered, in the order of delivery.
C4_HandlerGetsEverySample ==
  mark.clean =>
     mark.got = [i \in 1..Len(mark.sent) |-> [h |-> mark.h, v |-> mark.sent[i]]]

\* Three callbacks were delivered to a running stream, not all with the same
\* value.
C4_Witness ==
  /\ mark.clean
  /\ Len(mark.sent) = 3
  /\ mark.sent[1] # mark.sent[2]
  /\ Len(mark.got) = 3

\* C5: the value adc_nearest_sampling_freq returns on its success path is
\* the value carried by the callback that answers this call's
\* compute-frequency command, never an ADC sample.
C5_NearestReturnsOwnAnswer ==
  (ret.op = "nearest" /\ ret.path = "ok") =>
     /\ ret.src.kind = "freq"
     /\ ret.src.id = call.id
     /\ ret.uval = IntToU32(ret.src.v)

\* C6 as claimed: when adc_nearest_sampling_freq was called with a handler
\* installed and the stream running, cont_cb is NULL after the call returns.
C6_NearestClearsHandler ==
  (call.op = "nearest" /\ pc = "idle" /\ call.pre.cont_cb # NULL
     /\ drv.stream # 0) =>
     cont_cb = NULL

\* C6 as amended: adc_nearest_sampling_freq does not write cont_cb; when it
\* was called with the handler h installed, cont_cb is still h after the
\* call returns, on the success path and on both error paths.
C6_NearestKeepsHandler ==
  (call.op = "nearest" /\ pc = "idle" /\ call.pre.cont_cb # NULL) =>
     cont_cb = call.pre.cont_cb

\* adc_nearest_sampling_freq has returned on its success path, having been
\* called with a handler installed and the stream running.
C6_Witness ==
  /\ call.op = "nearest" /\ pc = "idle"
  /\ ret.op = "nearest" /\ ret.path = "ok"
  /\ call.pre.cont_cb # NULL
  /\ drv.stream # 0

\* C7: once adc_nearest_sampling_freq has been called with the handler h
\* installed and its subscribe has succeeded, no callback invokes h until
\* adc_read_cont_sample is called again.
C7_NearestLosesStream ==
  stopped.nf # NULL => ~Invoked(stopped.nf)

\* A sample of the still running stream was delivered after such a call.
C7_Witness ==
  /\ stopped.nf # NULL
  /\ ev.delivered
  /\ drv.stream # 0
  /\ src.frequency.kind = "stream"

\* C9: when subscribe or the single-sample command is rejected inside
\* adc_read_single_sample, the call returns that very status without having
\* suspended, a rejected subscribe keeps the command from being issued, and
\* result.fired is false when the call returns.
C9_ReadSingleErrorPath ==
  (call.op = "read_single" /\ (call.sub < 0 \/ call.cmd < 0)) =>
     /\ pc = "idle"
     /\ ~call.yielded
     /\ ret.op = "read_single" /\ ret.path = "err"
     /\ call.sub < 0 => (ret.val = call.sub /\ call.ncmd = 0)
     /\ call.sub >= 0 => (ret.val = call.cmd /\ call.ncmd = 1)
     /\ JustReturned => ~result.fired

\* adc_read_single_sample has just returned the status of a rejected
\* command, entered with result.fired still true from an earlier callback.
C9_Witness ==
  /\ call.op = "read_single" /\ JustReturned
  /\ call.sub = 0 /\ call.cmd < 0
  /\ call.pre.result.fired

\* The operation has just returned the negative status of a rejected
\* subscribe or command.
Rejected ==
  /\ call.op \in {"read_single", "read_cont", "nearest"}
  /\ call.sub < 0 \/ call.cmd < 0
  /\ JustReturned

\* C10 as claimed: a rejected subscribe or command makes the operation
\* return without a retry, with result, cont_cb and frequency exactly as
\* they were when it was called.
C10_RejectionLeavesState ==
  Rejected =>
     /\ call.nsub <= 1 /\ call.ncmd <= 1
     /\ St = call.pre

\* C10 as amended: no syscall is issued twice and nothing follows a rejected
\* subscribe; result.reading and frequency.value are as they were; of the
\* rest only the store made before subscribing differs: adc_read_single_sample
\* has set cont_cb to NULL and result.fired to false, adc_read_cont_sample
\* has set cont_cb to its handler argument, adc_nearest_sampling_freq has set
\* frequency.computed to false.
C10_RejectionKeepsEntryStores ==
  Rejected =>
     /\ call.nsub = 1
     /\ call.ncmd = IF call.sub < 0 THEN 0 ELSE 1
     /\ result.reading = call.pre.result.reading
     /\ frequency.value = call.pre.frequency.value
     /\ call.op = "read_single" =>
          St = [call.pre EXCEPT !.cont_cb = NULL, !.result.fired = FALSE]
     /\ call.op = "read_cont" =>
          St = [call.pre EXCEPT !.cont_cb = call.cb]
     /\ call.op = "nearest" =>
          St = [call.pre EXCEPT !.frequency.computed = FALSE]

\* adc_read_single_sample has just been rejected, called with a handler
\* installed and a delivered reading in result.
C10_Witness ==
  /\ Rejected
  /\ call.op = "read_single"
  /\ call.pre.cont_cb # NULL
  /\ call.pre.result.fired
  /\ call.pre.result.reading # 0

\* Decoding of a continuous-sample argument: channel = arg mod 256,
\* frequency = arg div 256; and f mod 2^24.
DecChan(arg) == arg[1]
DecFreq(arg) == [i \in 1..WordBytes |-> IF i = WordBytes THEN 0 ELSE arg[i + 1]]
Trunc24(f) == [f EXCEPT ![WordBytes] = 0]

\* C8: the argument adc_cont_sample builds is (frequency * 256 + channel)
\* mod 2^32; decoding it gives back the channel and the frequency mod 2^24,
\* which is the frequency itself when that is below 2^24; and packing the
\* truncated frequency gives the same argument.
C8_PackRoundTrip ==
  pack.done =>
     /\ pack.arg = <<pack.c, pack.f[1], pack.f[2], pack.f[3]>>
     /\ DecChan(pack.arg) = pack.c
     /\ DecFreq(pack.arg) = Trunc24(pack.f)
     /\ pack.f[WordBytes] = 0 => DecFreq(pack.arg) = pack.f
     /\ chan_freq(pack.c, Trunc24(pack.f)) = pack.arg

\* An argument was built from channel 255 and a frequency of 2^24 or more
\* with a non-zero low byte.
C8_Witness ==
  /\ pack.done
  /\ pack.c = 255
  /\ pack.f[WordBytes] # 0
  /\ pack.f[1] # 0

\* C11: a suspended adc_read_single_sample or adc_nearest_sampling_freq
\* resumes and returns on its success path only when a callback dispatched
\* after the call began (so after the call reset the flag) has set the flag
\* it waits for; a flag left TRUE by an earlier call does not let it through.
C11_ReturnNeedsNewDispatch ==
  /\ (pc = "rs_wait" /\ result.fired) => src.result.fresh
  /\ (pc = "nf_wait" /\ frequency.computed) => src.frequency.fresh
  /\ (ret.op \in {"read_single", "nearest"} /\ ret.path = "ok") => ret.src.fresh

\* Back-to-back adc_read_single_sample calls, as in sample_sensors: the
\* second began with the flag still TRUE from the first and has returned.
C11_Witness ==
  /\ call.op = "read_single" /\ call.prev = "read_single"
  /\ call.prevPath = "ok"
  /\ call.pre.result.fired
  /\ ret.path = "ok" /\ pc = "idle"

\* C12: a callback invokes at most one handler; after a successful
\* adc_read_cont_sample(.., h1) directly followed by
\* adc_read_cont_sample(.., h2), every callback dispatched from then on
\* invokes h2 and nothing else, and the second call returns what its
\* syscalls returned: the client adds no error for the stream that was
\* already active.
C12_LastHandlerWins ==
  /\ Len(ev.calls) <= 1
  /\ (call.op = "read_cont" /\ call.prev = "read_cont" /\ call.prevPath = "ok") =>
       /\ cont_cb = call.cb
       /\ ev.delivered => ev.calls = <<[h |-> call.cb, v |-> ev.v]>>
       /\ ret.val = IF call.sub < 0 THEN call.sub ELSE call.cmd
       /\ (call.sub >= 0 /\ call.cmd >= 0) => ret.path = "ok"

\* A second adc_read_cont_sample with another handler was accepted while the
\* first stream was active, and a callback has been dispatched since.
C12_Witness ==
  /\ call.op = "read_cont" /\ call.prev = "read_cont" /\ call.prevPath = "ok"
  /\ call.pre.cont_cb # NULL /\ call.pre.cont_cb # call.cb
  /\ ret.path = "ok"
  /\ ev.delivered /\ Len(ev.calls) = 1

\* C13: a dispatch of adc_freq_cb leaves result (reading, fired) and cont_cb
\* as they were, and a dispatch of adc_cb leaves frequency (value, computed)
\* as it was.
C13_SlotsIndependent ==
  [][(ndel' = ndel + 1) =>
       /\ slot.cb = "adc_freq_cb" => (result' = result /\ cont_cb' = cont_cb)
       /\ slot.cb = "adc_cb" => frequency' = frequency]_vars

\* adc_freq_cb has just been dispatched while result held a reading and a
\* handler was installed; frequency holds the value it carried.
C13_Witness ==
  /\ ev.delivered /\ slot.cb = "adc_freq_cb"
  /\ result.fired /\ cont_cb # NULL
  /\ frequency.computed /\ frequency.value = ev.v

\* C14: once adc_read_single_sample or adc_nearest_sampling_freq has had
\* its subscribe and command accepted, it returns if and only if a callback
\* is dispatched afterwards: when the driver delivers the callback it owes,
\* the call returns on its success path, and the call leaves yield_for in
\* no other way than with its flag set by a callback dispatched after the
\* call began: without one it stays suspended.
C14_ReturnsIffCallback ==
  /\ (pc = "rs_wait") ~> (pc = "idle" /\ ret.op = "read_single" /\ ret.path = "ok")
  /\ (pc = "nf_wait") ~> (pc = "idle" /\ ret.op = "nearest" /\ ret.path = "ok")
  /\ [][(pc = "rs_wait" /\ pc' # "rs_wait") =>
          (result.fired /\ src.result.fresh /\ pc' = "idle")]_vars
  /\ [][(pc = "nf_wait" /\ pc' # "nf_wait") =>
          (frequency.computed /\ src.frequency.fresh /\ pc' = "idle")]_vars
  /\ [][(Suspended /\ ndel' = ndel) => UNCHANGED <<pc, ret>>]_vars

\* adc_read_single_sample was suspended with both syscalls accepted and has
\* returned the value of the callback dispatched since.
C14_Witness ==
  /\ call.op = "read_single" /\ call.yielded
  /\ call.sub >= 0 /\ call.cmd >= 0
  /\ pc = "idle" /\ ret.path = "ok"
  /\ ret.src.fresh /\ ret.val = ret.src.v

\* C15 as claimed: no callback is dispatched while an invocation of the
\* continuous handler is in progress, whatever the handler does.
C15_NoDispatchInHandler ==
  ev.delivered => ev.during = NULL

\* C15: a handler invocation stays in progress from one step to the next
\* only when the handler called adc_read_single_sample, had its subscribe
\* and command accepted, and is suspended in that call's yield_for; only
\* then is a callback dispatched while the handler is in progress. A handler
\* that returns without suspending (also one whose adc_read_single_sample
\* was rejected) has returned before the next callback.
C15_DispatchOnlyInSuspendedHandler ==
  /\ inh.h # NULL =>
       /\ inh.h \in Suspending
       /\ pc = "rs_wait"
       /\ call.op = "read_single" /\ call.yielded
       /\ call.sub >= 0 /\ call.cmd >= 0
  /\ (ev.delivered /\ ev.during # NULL) =>
       /\ ev.during \in Suspending
       /\ call.op = "read_single" /\ call.yielded
       /\ call.sub >= 0 /\ call.cmd >= 0
       /\ ev.calls = <<>>

\* A callback has been dispatched while the handler hs, suspended in its own
\* adc_read_single_sample, was in progress.
C15_Witness ==
  /\ ev.delivered /\ ev.during \in Suspending
  /\ inh.h = ev.during
  /\ result.fired /\ pc = "rs_wait"

\* C16: the handler h of an adc_read_cont_sample(c, f, h) that returned a
\* negative status is invoked by no callback until a later
\* adc_read_cont_sample succeeds; the samples of an earlier stream that is
\* still active do not reach h.
C16_FailedHandlerNotInvoked ==
  stopped.rc # NULL => ~Invoked(stopped.rc)

\* C17: the subscription slot holds no pair or one pair, and a pair is
\* either (adc_cb, &result) or (adc_freq_cb, &frequency); an operation whose
\* subscribe was accepted leaves its own pair in the slot, whatever was
\* there before.
C17_SlotTypeConsistent ==
  /\ slot \in {NoSlot,
               [cb |-> "adc_cb", ud |-> "result"],
               [cb |-> "adc_freq_cb", ud |-> "frequency"]}
  /\ (call.nsub > 0 /\ call.sub >= 0) =>
       slot = IF call.op = "nearest"
              THEN [cb |-> "adc_freq_cb", ud |-> "frequency"]
              ELSE [cb |-> "adc_cb", ud |-> "result"]

\* adc_nearest_sampling_freq has replaced the pair a successful
\* adc_read_cont_sample had registered.
C17_Witness ==
  /\ call.op = "nearest" /\ call.sub >= 0
  /\ call.prev = "read_cont" /\ call.prevPath = "ok"
  /\ slot = [cb |-> "adc_freq_cb", ud |-> "frequency"]

\* e + 2^32 for -256 <= e < 0, as four bytes: 2^32 - 1 is 255 in every
\* byte, and e + 1 is taken off the lowest one.
Plus2p32(e) == [i \in 1..WordBytes |-> IF i = 1 THEN ByteBase + e ELSE ByteBase - 1]

\* C18: when subscribe or the compute-frequency command is rejected with the
\* negative status e, adc_nearest_sampling_freq returns without suspending
\* and the uint32_t it returns is e + 2^32, a value in the range of
\* frequencies; a negative value carried by the callback is returned
\* converted the same way.
C18_NegativeStatusAsU32 ==
  /\ (ret.op = "nearest" /\ ret.path = "err") =>
       /\ ~call.yielded /\ pc = "idle"
       /\ ret.val < 0
       /\ ret.val = IF call.sub < 0 THEN call.sub ELSE call.cmd
       /\ ret.uval = Plus2p32(ret.val)
       /\ ret.uval \in U32
  /\ (ret.op = "nearest" /\ ret.path = "ok") =>
       /\ ret.val < 0 => ret.uval = Plus2p32(ret.val)
       /\ ret.val >= 0 => ret.uval = NatToU32(ret.val)

\* The compute-frequency command was rejected with -2 and
\* adc_nearest_sampling_freq returned 4294967294.
C18_Witness ==
  /\ ret.op = "nearest" /\ ret.path = "err"
  /\ call.sub >= 0 /\ call.cmd = -2
  /\ ret.uval = <<254, 255, 255, 255>>

====
